---- MODULE Spec2Model ----
(***************************************************************************)
(* Model of normalizer.go (package sqlparser): Normalize rewrites the      *)
(* literals of a parsed statement into bind variables.                     *)
(*                                                                         *)
(* Byte strings ([]byte, string) are sequences of one-character strings.   *)
(* A statement is the sequence of the comparison expressions of its WHERE  *)
(* clause; every comparison has a Left and a Right operand.  The trees are *)
(* those a caller can build from the AST types, the parser's among them.   *)
(***************************************************************************)
EXTENDS Integers, Sequences, FiniteSets, TLC

\* Largest size of a statement: the number of its literal positions (a
\* comparison with a scalar right operand counts one, a tuple its length).
MaxLits == 2

---------------------------------------------------------------------------
(* Byte-string helpers *)

DigitChars == <<"0", "1", "2", "3", "4", "5", "6", "7", "8", "9">>

IsDigit(c) == \E i \in 1..10 : DigitChars[i] = c

DigitVal(c) == (CHOOSE i \in 1..10 : DigitChars[i] = c) - 1

\* strconv-style decimal rendering of a non-negative int: no leading zeros.
RECURSIVE Decimal(_)
Decimal(n) ==
    IF n < 10 THEN <<DigitChars[n + 1]>>
    ELSE Decimal(n \div 10) \o <<DigitChars[(n % 10) + 1]>>

\* fmt.Sprintf("%s%d", prefix, counter)
Sprintf(prefix, counter) == prefix \o Decimal(counter)

AllDigits(s) == \A i \in 1..Len(s) : IsDigit(s[i])

RECURSIVE StripZeros(_)
StripZeros(s) ==
    IF Len(s) > 1 /\ s[1] = "0" THEN StripZeros(Tail(s)) ELSE s

\* a <= b for digit strings of the same length
RECURSIVE DigitsLeq(_, _)
DigitsLeq(a, b) ==
    IF Len(a) = 0 THEN TRUE
    ELSE IF DigitVal(a[1]) < DigitVal(b[1]) THEN TRUE
    ELSE IF DigitVal(a[1]) > DigitVal(b[1]) THEN FALSE
    ELSE DigitsLeq(Tail(a), Tail(b))

MaxInt64Digits ==
    <<"9","2","2","3","3","7","2","0","3","6","8","5","4","7","7","5","8","0","7">>

MinInt64Digits ==
    <<"9","2","2","3","3","7","2","0","3","6","8","5","4","7","7","5","8","0","8">>

HasSign(s) == Len(s) > 0 /\ s[1] \in {"+", "-"}

Unsigned(s) == IF HasSign(s) THEN Tail(s) ELSE s

\* The raw text is a decimal integer that fits a signed 64-bit word.
ParseIntOk(val) ==
    LET body == Unsigned(val)
        mag  == StripZeros(body)
        lim  == IF HasSign(val) /\ val[1] = "-" THEN MinInt64Digits
                ELSE MaxInt64Digits
    IN  /\ Len(body) > 0
        /\ AllDigits(body)
        /\ \/ Len(mag) < Len(lim)
           \/ Len(mag) = Len(lim) /\ DigitsLeq(mag, lim)

\* The raw text is a decimal number: digits with at most one point.
ParseFloatOk(val) ==
    LET body == Unsigned(val)
        dots == {i \in 1..Len(body) : body[i] = "."}
    IN  /\ Cardinality(dots) <= 1
        /\ \E i \in 1..Len(body) : IsDigit(body[i])
        /\ \A i \in 1..Len(body) : IsDigit(body[i]) \/ body[i] = "."

\* sqltypes.NewValue(typ, val): the value keeps the raw bytes; err is set
\* when a numeric type's text does not parse.
NewValue(typ, val) ==
    [err |-> CASE typ = "INT64"   -> ~ParseIntOk(val)
               [] typ = "FLOAT64" -> ~ParseFloatOk(val)
               [] OTHER           -> FALSE,
     typ |-> typ, val |-> val]

---------------------------------------------------------------------------
(* querypb.BindVariable *)

NilBindVar == [Type |-> "nil", Value |-> <<>>, Values |-> <<>>]

\* sqltypes.ValueBindVariable(v)
ValueBindVariable(v) == [Type |-> v.typ, Value |-> v.val, Values |-> <<>>]

\* A conversion that does not look at err.
sqlToBindvar_NoErrCheck(node) ==
    IF node.kind = "SQLVal"
    THEN CASE node.Type = "StrVal" ->
                  ValueBindVariable(NewValue("VARBINARY", node.Val))
           [] node.Type = "IntVal" ->
                  ValueBindVariable(NewValue("INT64", node.Val))
           [] node.Type = "FloatVal" ->
                  ValueBindVariable(NewValue("FLOAT64", node.Val))
           [] OTHER -> NilBindVar
    ELSE NilBindVar

sqlToBindvar(node) ==
    IF node.kind = "SQLVal"
    THEN LET v == CASE node.Type = "StrVal"   -> NewValue("VARBINARY", node.Val)
                    [] node.Type = "IntVal"   -> NewValue("INT64", node.Val)
                    [] node.Type = "FloatVal" -> NewValue("FLOAT64", node.Val)
                    [] OTHER -> [err |-> TRUE, typ |-> "nil", val |-> <<>>]
         IN  IF v.err THEN NilBindVar ELSE ValueBindVariable(v)
    ELSE NilBindVar

---------------------------------------------------------------------------
(* newName *)

\* An allocator that does not probe the reserved set.
newName_NoProbe(prefix, counter, reserved) ==
    [name |-> Sprintf(prefix, counter), counter |-> counter + 1,
     reserved |-> reserved \cup {Sprintf(prefix, counter)}]

\* An allocator that hands back the counter of the name it found.
RECURSIVE newName_NoBump(_, _, _)
newName_NoBump(prefix, counter, reserved) ==
    LET name == Sprintf(prefix, counter)
    IN  IF name \notin reserved
        THEN [name |-> name, counter |-> counter,
              reserved |-> reserved \cup {name}]
        ELSE newName_NoBump(prefix, counter + 1, reserved)

\* The result: the name, the next counter and the reserved set with the
\* name added (the Go map is mutated in place).
RECURSIVE newName(_, _, _)
newName(prefix, counter, reserved) ==
    LET name == Sprintf(prefix, counter)
    IN  IF name \notin reserved
        THEN [name |-> name, counter |-> counter + 1,
              reserved |-> reserved \cup {name}]
        ELSE newName(prefix, counter + 1, reserved)

---------------------------------------------------------------------------
(* The tree and its traversal *)

\* A path names a node: <<i>> the i-th comparison, <<i, 1>> its Left,
\* <<i, 2>> its Right, <<i, 2, j>> the j-th element of a tuple on the right.
NodeAt(s, p) ==
    CASE Len(p) = 1 -> s[p[1]]
      [] Len(p) = 2 -> IF p[2] = 1 THEN s[p[1]].Left ELSE s[p[1]].Right
      [] OTHER      -> s[p[1]].Right.Exprs[p[3]]

ReplaceAt(s, p, n) ==
    CASE Len(p) = 1 -> [s EXCEPT ![p[1]] = n]
      [] Len(p) = 2 -> IF p[2] = 1 THEN [s EXCEPT ![p[1]].Left = n]
                       ELSE [s EXCEPT ![p[1]].Right = n]
      [] OTHER      -> [s EXCEPT ![p[1]].Right.Exprs[p[3]] = n]

\* walkSubtree: the children of the node at p, read after the visit.
ChildPaths(s, p) ==
    CASE Len(p) = 1 -> <<p \o <<1>>, p \o <<2>>>>
      [] Len(p) = 2 ->
           IF NodeAt(s, p).kind = "ValTuple"
           THEN [j \in 1..Len(NodeAt(s, p).Exprs) |-> p \o <<j>>]
           ELSE <<>>
      [] OTHER -> <<>>

RootPaths(s) == [i \in 1..Len(s) |-> <<i>>]

\* All paths of s in depth-first pre-order.
RECURSIVE PreOrder(_, _)
PreOrder(s, todo) ==
    IF todo = <<>> THEN <<>>
    ELSE <<Head(todo)>> \o PreOrder(s, ChildPaths(s, Head(todo)) \o Tail(todo))

AllPaths(s) == PreOrder(s, RootPaths(s))

\* The paths of the nodes Walk reaches from s.
PathSet(s) == LET all == AllPaths(s) IN {all[i] : i \in 1..Len(all)}

RECURSIVE DropN(_, _)
DropN(s, n) == IF n = 0 \/ s = <<>> THEN s ELSE DropN(Tail(s), n - 1)

\* GetBindvars: the names of the bind variables the statement references.
GetBindvars(s) ==
    LET paths == PathSet(s) IN
    {DropN(NodeAt(s, p).Val, 1) :
        p \in {q \in paths : /\ NodeAt(s, q).kind = "SQLVal"
                              /\ NodeAt(s, q).Type = "ValArg"}}
    \cup
    {DropN(NodeAt(s, p).Val, 2) :
        p \in {q \in paths : NodeAt(s, q).kind = "ListArg"}}

---------------------------------------------------------------------------
(* The input universe *)

SQLVal(type, val) == [kind |-> "SQLVal", Type |-> type, Val |-> val]

ColName(name) == [kind |-> "ColName", Name |-> name]

ValTuple(exprs) == [kind |-> "ValTuple", Exprs |-> exprs]

ListArg(val) == [kind |-> "ListArg", Val |-> val]

ComparisonExpr(op, left, right) ==
    [kind |-> "ComparisonExpr", Operator |-> op, Left |-> left, Right |-> right]

\* Operator strings of ComparisonExpr.
EqualStr == "="
InStr == "in"
NotInStr == "not in"

\* 2^63: one more than the largest int64, so it does not parse.
TooBig == MinInt64Digits

Literals ==
    { SQLVal("IntVal", <<"1">>), SQLVal("IntVal", <<"2">>),
      SQLVal("IntVal", TooBig),
      SQLVal("StrVal", <<"1">>),
      SQLVal("FloatVal", <<"1">>),
      SQLVal("HexNum", <<"0", "x", "1">>),
      SQLVal("ValArg", <<":", "v", "1">>) }

TupleElems ==
    { SQLVal("IntVal", <<"1">>), SQLVal("StrVal", <<"1">>),
      SQLVal("ValArg", <<":", "v", "1">>) }

\* The comparisons of size n.
Comparisons(n) ==
    {ComparisonExpr(op, ColName(<<"a">>), ValTuple(e)) :
        op \in {EqualStr, InStr, NotInStr}, e \in [1..n -> TupleElems]}
    \cup
    (IF n = 1
     THEN {ComparisonExpr(EqualStr, ColName(<<"a">>), r) : r \in Literals}
          \cup {ComparisonExpr(InStr, ColName(<<"a">>),
                               ListArg(<<":", ":", "v", "2">>))}
     ELSE {})

\* The statements of size at most n, the empty one included.
RECURSIVE StatementsUpTo(_)
StatementsUpTo(n) ==
    {<<>>} \cup
    UNION {{<<c>> \o s : c \in Comparisons(k), s \in StatementsUpTo(n - k)} :
              k \in 1..n}

Statements == StatementsUpTo(MaxLits) \ {<<>>}

Prefixes == {<<"v">>, <<"b", "v">>}

\* A binding the caller made before the call.
CallerValue == [Type |-> "VARBINARY", Value |-> <<"x">>, Values |-> <<>>]

EmptyMap == [n \in {} |-> NilBindVar]

CallerMaps == {EmptyMap, [n \in {<<"v", "1">>} |-> CallerValue]}

---------------------------------------------------------------------------
(* Normalize *)

\* The key under which vals remembers the name given to a value.
DedupKey(bval, node) ==
    IF bval.Type = "VARBINARY" THEN <<"'">> \o node.Val ELSE node.Val

\* A lookup that never finds the key.
Found_Never(m, key) == FALSE

\* bvname, ok := vals[key]
Found(m, key) == key \in DOMAIN m

\* m[k] = v on a Go map: insert, or overwrite when k is present.
Put(m, k, v) == [x \in DOMAIN m \cup {k} |-> IF x = k THEN v ELSE m[x]]

\* A placeholder written with the literal's own bytes.
Placeholder_RawVal(node, bvname) ==
    [node EXCEPT !.Type = "ValArg", !.Val = <<":">> \o node.Val]

\* node.Type = ValArg; node.Val = append([]byte(":"), bvname...)
Placeholder(node, bvname) ==
    [node EXCEPT !.Type = "ValArg", !.Val = <<":">> \o bvname]

\* The visit of a *SQLVal at path p.
VisitSQLVal(st, p) ==
    LET node   == NodeAt(st.stmt, p)
        bval   == sqlToBindvar(node)
        key    == DedupKey(bval, node)
        ok     == Found(st.vals, key)
        nn     == newName(st.prefix, st.counter, st.reserved)
        bvname == IF ok THEN st.vals[key] ELSE nn.name
    IN  IF bval = NilBindVar THEN st
        ELSE [st EXCEPT
                !.counter  = IF ok THEN @ ELSE nn.counter,
                !.reserved = IF ok THEN @ ELSE nn.reserved,
                !.vals     = IF ok THEN @ ELSE Put(@, key, bvname),
                !.bindVars = IF ok THEN @ ELSE Put(@, bvname, bval),
                !.stmt     = ReplaceAt(@, p, Placeholder(node, bvname)),
                !.log      = Append(@, [path |-> p, name |-> bvname,
                                        list |-> FALSE, fresh |-> ~ok,
                                        ctr |-> st.counter])]

\* The bind variables of the elements of a tuple, in order.
TupleBindvars(exprs) == [i \in 1..Len(exprs) |-> sqlToBindvar(exprs[i])]

\* A loop that is content with one element that converts.
TupleConverts_Any(bs) == \E i \in 1..Len(bs) : bs[i] # NilBindVar

\* The loop over the tuple runs to its end: no element fails to convert.
TupleConverts(bs) == \A i \in 1..Len(bs) : bs[i] # NilBindVar

\* The values in reverse order.
ListValues_Reversed(bs) ==
    [i \in 1..Len(bs) |-> [Type |-> bs[Len(bs) + 1 - i].Type,
                           Value |-> bs[Len(bs) + 1 - i].Value]]

\* bvals.Values as the loop appends them.
ListValues(bs) ==
    [i \in 1..Len(bs) |-> [Type |-> bs[i].Type, Value |-> bs[i].Value]]

\* The visit of a *ComparisonExpr at path p.
VisitComparisonExpr(st, p) ==
    LET node  == NodeAt(st.stmt, p)
        bs    == TupleBindvars(node.Right.Exprs)
        bvals == [Type |-> "TUPLE", Value |-> <<>>, Values |-> ListValues(bs)]
        nn    == newName(st.prefix, st.counter, st.reserved)
    IN  IF node.Operator \notin {InStr, NotInStr} THEN st
        ELSE IF node.Right.kind # "ValTuple" THEN st
        ELSE IF ~TupleConverts(bs) THEN st
        ELSE [st EXCEPT
                !.counter  = nn.counter,
                !.reserved = nn.reserved,
                !.bindVars = Put(@, nn.name, bvals),
                !.stmt     = ReplaceAt(@, p \o <<2>>,
                                ListArg(<<":", ":">> \o nn.name)),
                !.log      = Append(@, [path |-> p \o <<2>>, name |-> nn.name,
                                        list |-> TRUE, fresh |-> TRUE,
                                        ctr |-> st.counter])]

\* The function literal handed to Walk.
Visit(st, p) ==
    CASE NodeAt(st.stmt, p).kind = "SQLVal"         -> VisitSQLVal(st, p)
      [] NodeAt(st.stmt, p).kind = "ComparisonExpr" -> VisitComparisonExpr(st, p)
      [] OTHER                                      -> st

\* One step of Walk: visit the next node, then queue its children.
WalkStep(st) ==
    LET p     == Head(st.todo)
        after == Visit(st, p)
    IN  [after EXCEPT !.todo = ChildPaths(after.stmt, p) \o Tail(st.todo)]

\* The state of a call before the walk starts.
StartState(s, bv, pfx) ==
    [stmt |-> s, bindVars |-> bv, prefix |-> pfx,
     reserved |-> GetBindvars(s), counter |-> 1,
     vals |-> [k \in {} |-> <<>>], log |-> <<>>, todo |-> RootPaths(s)]

RECURSIVE Walk(_)
Walk(st) == IF st.todo = <<>> THEN st ELSE Walk(WalkStep(st))

\* The whole call, as a function of its arguments.
Normalize(s, bv, pfx) == Walk(StartState(s, bv, pfx))

---------------------------------------------------------------------------
(* The state machine: one call of Normalize, one visit per step *)

VARIABLES
    stmt0,      \* the statement as the caller passed it
    bindVars0,  \* the caller's map as passed
    prefix,
    pc,         \* "start", "walk" or "done"
    stmt, bindVars, reserved, counter, vals,
    todo,       \* the paths Walk has still to visit, next first
    log,        \* history: the rewrites made so far, in order; each entry
                \* has the path rewritten, the name used, whether it is a
                \* list, whether the name was allocated and inserted for it
                \* (fresh) and the counter before the visit (ctr)
    stmtB0,     \* a second statement of the same structure (SpecPair only)
    stmtB       \* the second statement after its own call

vars == <<stmt0, bindVars0, prefix, pc, stmt, bindVars, reserved, counter,
          vals, todo, log, stmtB0, stmtB>>

Cur == [stmt |-> stmt, bindVars |-> bindVars, prefix |-> prefix,
        reserved |-> reserved, counter |-> counter, vals |-> vals,
        log |-> log, todo |-> todo]

Set(st) ==
    /\ stmt' = st.stmt
    /\ bindVars' = st.bindVars
    /\ reserved' = st.reserved
    /\ counter' = st.counter
    /\ vals' = st.vals
    /\ log' = st.log
    /\ todo' = st.todo
    /\ UNCHANGED <<stmt0, bindVars0, prefix, stmtB0, stmtB>>

Init ==
    /\ stmt0 \in Statements
    /\ bindVars0 \in CallerMaps
    /\ prefix \in Prefixes
    /\ pc = "start"
    /\ stmt = stmt0
    /\ bindVars = bindVars0
    /\ reserved = {}
    /\ counter = 0
    /\ vals = [k \in {} |-> <<>>]
    /\ todo = <<>>
    /\ log = <<>>
    /\ stmtB0 = <<>>
    /\ stmtB = <<>>

\* Normalize up to the call of Walk.
Start ==
    /\ pc = "start"
    /\ \E st \in {StartState(stmt, bindVars, prefix)} : Set(st)
    /\ pc' = "walk"

NextKind == NodeAt(stmt, Head(todo)).kind

StepSQLVal ==
    /\ pc = "walk" /\ todo # <<>>
    /\ NextKind = "SQLVal"
    /\ \E st \in {WalkStep(Cur)} : Set(st)
    /\ pc' = pc

StepComparisonExpr ==
    /\ pc = "walk" /\ todo # <<>>
    /\ NextKind = "ComparisonExpr"
    /\ \E st \in {WalkStep(Cur)} : Set(st)
    /\ pc' = pc

StepOther ==
    /\ pc = "walk" /\ todo # <<>>
    /\ NextKind \notin {"SQLVal", "ComparisonExpr"}
    /\ \E st \in {WalkStep(Cur)} : Set(st)
    /\ pc' = pc

\* Walk returns and so does Normalize.
Return ==
    /\ pc = "walk" /\ todo = <<>>
    /\ pc' = "done"
    /\ UNCHANGED <<stmt0, bindVars0, prefix, stmt, bindVars, reserved,
                   counter, vals, todo, log, stmtB0, stmtB>>

Next == Start \/ StepSQLVal \/ StepComparisonExpr \/ StepOther \/ Return

Spec == Init /\ [][Next]_vars

TypeOK == pc \in {"start", "walk", "done"}

---------------------------------------------------------------------------
(* Two calls on two statements of the same structure *)

\* The literals that may stand where n stands: those of n's kind when n is
\* a string, integer or float literal, and n alone otherwise.
Alternatives(n) ==
    IF n.kind = "SQLVal" /\ n.Type \in {"StrVal", "IntVal", "FloatVal"}
    THEN {l \in Literals : l.Type = n.Type}
    ELSE {n}

\* The statements that differ from s at most in the literals at paths.
RECURSIVE VariantsAt(_, _)
VariantsAt(s, paths) ==
    IF paths = <<>> THEN {s}
    ELSE UNION {VariantsAt(ReplaceAt(s, Head(paths), l), Tail(paths)) :
                   l \in Alternatives(NodeAt(s, Head(paths)))}

Variants(s) == VariantsAt(s, AllPaths(s))

InitPair ==
    /\ stmt0 \in Statements
    /\ stmtB0 \in Variants(stmt0)
    /\ bindVars0 \in CallerMaps
    /\ prefix \in Prefixes
    /\ pc = "start"
    /\ stmt = stmt0
    /\ stmtB = stmtB0
    /\ bindVars = bindVars0
    /\ reserved = {}
    /\ counter = 0
    /\ vals = [k \in {} |-> <<>>]
    /\ todo = <<>>
    /\ log = <<>>

\* Normalize is called on each statement, with the same prefix and its own
\* copy of the map; the first call's state is kept.
NormalizePair ==
    /\ pc = "start"
    /\ \E a \in {Normalize(stmt0, bindVars0, prefix)} :
       \E b \in {Normalize(stmtB0, bindVars0, prefix)} :
          /\ stmt' = a.stmt
          /\ bindVars' = a.bindVars
          /\ reserved' = a.reserved
          /\ counter' = a.counter
          /\ vals' = a.vals
          /\ log' = a.log
          /\ todo' = a.todo
          /\ stmtB' = b.stmt
    /\ pc' = "done"
    /\ UNCHANGED <<stmt0, bindVars0, prefix, stmtB0>>

NextPair == NormalizePair

SpecPair == InitPair /\ [][NextPair]_vars

---------------------------------------------------------------------------
(* Vocabulary of the properties, stated on the statement as passed *)

Supported == {"StrVal", "IntVal", "FloatVal"}

\* A node that yields a typed value: a string, or a number that parses.
Convertible(n) ==
    /\ n.kind = "SQLVal"
    /\ \/ n.Type = "StrVal"
       \/ n.Type = "IntVal" /\ ParseIntOk(n.Val)
       \/ n.Type = "FloatVal" /\ ParseFloatOk(n.Val)

KindType(n) ==
    CASE n.Type = "StrVal"   -> "VARBINARY"
      [] n.Type = "IntVal"   -> "INT64"
      [] n.Type = "FloatVal" -> "FLOAT64"
      [] OTHER               -> "nil"

\* The paths of the literals of s: a right operand, or an element of a
\* tuple on the right.
LitPaths(s) ==
    {<<i, 2>> : i \in {k \in 1..Len(s) : s[k].Right.kind = "SQLVal"}}
    \cup UNION {{<<i, 2, j>> : j \in 1..Len(s[i].Right.Exprs)} :
                   i \in {k \in 1..Len(s) : s[k].Right.kind = "ValTuple"}}

\* The placeholder names s references, scalar or list.
NamesIn(s) ==
    {Tail(NodeAt(s, p).Val) :
        p \in {q \in LitPaths(s) : NodeAt(s, q).Type = "ValArg"}}
    \cup {Tail(Tail(s[i].Right.Val)) :
             i \in {k \in 1..Len(s) : s[k].Right.kind = "ListArg"}}

\* p comes before q in depth-first pre-order.
RECURSIVE Before(_, _)
Before(p, q) ==
    IF p = <<>> THEN q # <<>>
    ELSE IF q = <<>> THEN FALSE
    ELSE IF Head(p) # Head(q) THEN Head(p) < Head(q)
    ELSE Before(Tail(p), Tail(q))

HasPath(s, p) ==
    /\ p[1] \in 1..Len(s)
    /\ Len(p) = 3 => /\ s[p[1]].Right.kind = "ValTuple"
                     /\ p[3] \in 1..Len(s[p[1]].Right.Exprs)

IsInTuple(c) ==
    c.Operator \in {InStr, NotInStr} /\ c.Right.kind = "ValTuple"

\* An IN or NOT IN over a tuple whose elements all convert.
Qualifies(c) ==
    IsInTuple(c) /\ \A j \in 1..Len(c.Right.Exprs) : Convertible(c.Right.Exprs[j])

\* An IN or NOT IN over a tuple with an element that does not convert.
PartlyConvertible(c) ==
    IsInTuple(c) /\ \E j \in 1..Len(c.Right.Exprs) : ~Convertible(c.Right.Exprs[j])

\* The literals the walk meets as scalars: all but the elements of a tuple
\* that is rewritten as a whole.
ScalarVisited(s) ==
    {p \in LitPaths(s) : Len(p) = 3 => ~Qualifies(s[p[1]])}

ConvScalars(s) == {p \in ScalarVisited(s) : Convertible(NodeAt(s, p))}

FreshIdx == {i \in 1..Len(log) : log[i].fresh}

InsertedNames == {log[i].name : i \in FreshIdx}

\* The placeholder name a node carries, <<>> when it is no placeholder.
ScalarName(n) ==
    IF n.kind = "SQLVal" /\ n.Type = "ValArg" /\ Len(n.Val) > 0 /\ n.Val[1] = ":"
    THEN Tail(n.Val) ELSE <<>>

---------------------------------------------------------------------------
(* C1 *)

\* C1: every name under which the call inserts a binding differs from every
\* placeholder name the statement referenced before the call, and no two
\* insertions of one call use the same name.
C1_FreshNames ==
    LET old == NamesIn(stmt0) IN
    \A i \in FreshIdx :
        /\ log[i].name \notin old
        /\ \A j \in FreshIdx : j # i => log[j].name # log[i].name

\* A call with prefix v on a statement that already references v1 has
\* inserted a binding.
C1_Witness ==
    /\ pc = "done"
    /\ prefix = <<"v">>
    /\ <<"v", "1">> \in NamesIn(stmt0)
    /\ FreshIdx # {}

---------------------------------------------------------------------------
(* C4 *)

\* C4: after the call, any two convertible literals of the same kind and
\* the same raw text that were visited as scalars carry the identical
\* placeholder :name, the name is bound, and exactly one insertion was made
\* under it.
C4_Dedup ==
    pc = "done" =>
        \A p \in ConvScalars(stmt0) : \A q \in ConvScalars(stmt0) :
            (/\ NodeAt(stmt0, p).Type = NodeAt(stmt0, q).Type
             /\ NodeAt(stmt0, p).Val = NodeAt(stmt0, q).Val)
            => /\ HasPath(stmt, p) /\ HasPath(stmt, q)
               /\ ScalarName(NodeAt(stmt, p)) # <<>>
               /\ NodeAt(stmt, p) = NodeAt(stmt, q)
               /\ ScalarName(NodeAt(stmt, p)) \in DOMAIN bindVars
               /\ Cardinality({i \in FreshIdx :
                      log[i].name = ScalarName(NodeAt(stmt, p))}) = 1

\* A finished call on a statement with two occurrences of one literal.
C4_Witness ==
    /\ pc = "done"
    /\ \E p \in ConvScalars(stmt0) : \E q \in ConvScalars(stmt0) :
          /\ p # q
          /\ NodeAt(stmt0, p) = NodeAt(stmt0, q)

---------------------------------------------------------------------------
(* C9 *)

FreshLog == SelectSeq(log, LAMBDA e : e.fresh)

\* No allocation can reach a number above this one.
NameLimit == 2 * Len(AllPaths(stmt0)) + 1

\* The node whose visit made the allocation e.
CausePath(e) == IF e.list THEN <<e.path[1]>> ELSE e.path

\* C9: the counter starts at 1; each allocation returns prefix<n> for the
\* smallest n >= counter not reserved, reserves it and leaves the counter at
\* n + 1; so the first name is the lowest prefix<n> not referenced in the
\* statement as passed, and the numbers grow strictly in the pre-order of
\* the nodes that caused the allocations.
C9_LowestFreshName ==
    pc # "start" =>
        LET old   == NamesIn(stmt0)
            fl    == FreshLog
            limit == NameLimit
            \* the reserved set before the i-th allocation
            before(i) == old \cup {fl[j].name : j \in 1..(i - 1)}
            \* the counter after it: where the next one starts, or now
            after(i)  == IF i < Len(fl) THEN fl[i + 1].ctr ELSE counter
            no(i)     == CHOOSE n \in fl[i].ctr..limit :
                            Sprintf(prefix, n) = fl[i].name
        IN  /\ reserved = old \cup InsertedNames
            /\ fl = <<>> => counter = 1
            /\ fl # <<>> => fl[1].ctr = 1
            /\ \A i \in 1..Len(fl) :
                  /\ \E n \in fl[i].ctr..limit : Sprintf(prefix, n) = fl[i].name
                  /\ fl[i].name \notin before(i)
                  /\ \A m \in fl[i].ctr..(no(i) - 1) :
                        Sprintf(prefix, m) \in before(i)
                  /\ after(i) = no(i) + 1
                  /\ i = 1 => \A m \in 1..(no(i) - 1) : Sprintf(prefix, m) \in old
                  /\ \A j \in 1..(i - 1) :
                        /\ Before(CausePath(fl[j]), CausePath(fl[i]))
                        /\ no(j) < no(i)

\* The first allocation of a finished call had to skip a reserved name.
C9_Witness ==
    /\ pc = "done"
    /\ Len(FreshLog) >= 1
    /\ Sprintf(prefix, 1) \in NamesIn(stmt0)
    /\ FreshLog[1].name = Sprintf(prefix, 2)

---------------------------------------------------------------------------
(* C8 *)

\* The next node of the walk is a literal that does not convert.
AtUnconvertible ==
    /\ pc = "walk" /\ todo # <<>>
    /\ NodeAt(stmt, Head(todo)).kind = "SQLVal"
    /\ ~Convertible(NodeAt(stmt, Head(todo)))

\* C8 (state part): a literal of the statement as passed that does not
\* convert (a kind other than string, integer, float, or a number that does
\* not parse) keeps its kind and bytes, and no rewrite is logged for it.
C8_Kept ==
    \A p \in LitPaths(stmt0) :
        ~Convertible(NodeAt(stmt0, p)) =>
            /\ HasPath(stmt, p)
            /\ NodeAt(stmt, p) = NodeAt(stmt0, p)
            /\ \A i \in 1..Len(log) : log[i].path # p

\* C8 (step part): the visit of such a literal inserts no binding, reserves
\* no name, leaves the counter and the dedup index alone, and the walk goes
\* on to the next node.
C8_Step ==
    AtUnconvertible =>
        /\ UNCHANGED <<stmt, bindVars, reserved, counter, vals, log>>
        /\ pc' = "walk"
        /\ todo' = Tail(todo)

\* C8: unconvertible literals are left untouched, silently.
C8_Untouched == [](C8_Kept) /\ [][C8_Step]_vars

\* The walk has passed a number that does not parse and a literal of an
\* unsupported kind, and has finished.
C8_Witness ==
    /\ pc = "done"
    /\ \E p \in LitPaths(stmt0) :
          NodeAt(stmt0, p).Type = "IntVal" /\ ~Convertible(NodeAt(stmt0, p))
    /\ \E p \in LitPaths(stmt0) : NodeAt(stmt0, p).Type \notin Supported

---------------------------------------------------------------------------
(* C7 *)

\* The placeholder name a list argument carries, <<>> when it is none.
ListName(n) ==
    IF n.kind = "ListArg" /\ Len(n.Val) > 1 /\ n.Val[1] = ":" /\ n.Val[2] = ":"
    THEN Tail(Tail(n.Val)) ELSE <<>>

\* The typed values of the elements of a tuple, in tuple order.
ExpectedValues(exprs) ==
    [j \in 1..Len(exprs) |->
        [Type |-> KindType(exprs[j]), Value |-> exprs[j].Val]]

\* The key of the dedup index for a literal.
KeyOf(n) == IF n.Type = "StrVal" THEN <<"'">> \o n.Val ELSE n.Val

\* C7: after the call, an IN or NOT IN over a tuple whose elements all
\* convert has as right operand one list placeholder ::name; exactly one
\* insertion was made for it, under a name no other rewrite uses; the name
\* is bound to the list of the elements' typed values in tuple order; and
\* the tuple's elements got no rewrite of their own and no dedup entry.
C7_ListRewrite ==
    pc = "done" =>
        /\ \A i \in 1..Len(stmt0) :
            Qualifies(stmt0[i]) =>
              LET name == ListName(stmt[i].Right) IN
                /\ name # <<>>
                /\ name \notin NamesIn(stmt0)
                /\ Cardinality({k \in 1..Len(log) : log[k].name = name}) = 1
                /\ \E k \in FreshIdx :
                      /\ log[k].name = name
                      /\ log[k].list
                      /\ log[k].path = <<i, 2>>
                /\ name \in DOMAIN bindVars
                /\ bindVars[name] =
                      [Type |-> "TUPLE", Value |-> <<>>,
                       Values |-> ExpectedValues(stmt0[i].Right.Exprs)]
                /\ \A k \in 1..Len(log) :
                      ~(Len(log[k].path) = 3 /\ log[k].path[1] = i)
        /\ \A key \in DOMAIN vals :
              \E p \in ConvScalars(stmt0) : KeyOf(NodeAt(stmt0, p)) = key

\* A finished call on a statement with two equal tuples that qualify, or
\* with a qualifying tuple of two elements of different kinds.
C7_Witness ==
    /\ pc = "done"
    /\ \/ /\ Len(stmt0) = 2
          /\ Qualifies(stmt0[1]) /\ Qualifies(stmt0[2])
          /\ stmt0[1].Right = stmt0[2].Right
       \/ /\ Qualifies(stmt0[1])
          /\ Len(stmt0[1].Right.Exprs) = 2
          /\ stmt0[1].Right.Exprs[1].Type # stmt0[1].Right.Exprs[2].Type

---------------------------------------------------------------------------
(* C2 *)

---------------------------------------------------------------------------
(* C3 *)

\* C3: after the call, two convertible literals of different kinds with the
\* same raw bytes, both visited as scalars, carry different placeholder
\* names, and each name is bound to a value of the literal's own kind.
C3_KindDisambiguation ==
    pc = "done" =>
        \A p \in ConvScalars(stmt0) : \A q \in ConvScalars(stmt0) :
            (/\ NodeAt(stmt0, p).Type # NodeAt(stmt0, q).Type
             /\ NodeAt(stmt0, p).Val = NodeAt(stmt0, q).Val)
            => /\ ScalarName(NodeAt(stmt, p)) # ScalarName(NodeAt(stmt, q))
               /\ ScalarName(NodeAt(stmt, p)) \in DOMAIN bindVars
               /\ bindVars[ScalarName(NodeAt(stmt, p))].Type
                      = KindType(NodeAt(stmt0, p))

---------------------------------------------------------------------------
(* C5 *)

\* C5: every entry of the caller's map as passed is in the map with the
\* same value, and no name is assigned twice within the call.
C5_InsertOnly ==
    /\ \A n \in DOMAIN bindVars0 :
          n \in DOMAIN bindVars /\ bindVars[n] = bindVars0[n]
    /\ \A i \in FreshIdx : \A j \in FreshIdx :
          i # j => log[i].name # log[j].name

---------------------------------------------------------------------------
(* C10 *)

LiteralType(t) ==
    CASE t = "VARBINARY" -> "StrVal"
      [] t = "INT64"     -> "IntVal"
      [] t = "FLOAT64"   -> "FloatVal"
      [] OTHER           -> "nil"

\* The node a bound value stands for.
Unbind(bv) ==
    IF bv.Type = "TUPLE"
    THEN ValTuple([j \in 1..Len(bv.Values) |->
                     SQLVal(LiteralType(bv.Values[j].Type), bv.Values[j].Value)])
    ELSE SQLVal(LiteralType(bv.Type), bv.Value)

\* s with the placeholders of the first k rewrites of the log replaced by
\* the values bound to them.
RECURSIVE Restore(_, _)
Restore(s, k) ==
    IF k = 0 THEN s
    ELSE Restore(ReplaceAt(s, log[k].path, Unbind(bindVars[log[k].name])),
                 k - 1)

\* C10: after a call on an empty map, every placeholder the call introduced
\* names an entry of the map, and putting the bound values back in their
\* places gives the statement as passed.
C10_RoundTrip ==
    (pc = "done" /\ bindVars0 = EmptyMap) =>
        /\ \A k \in 1..Len(log) : log[k].name \in DOMAIN bindVars
        /\ Restore(stmt, Len(log)) = stmt0

---------------------------------------------------------------------------
(* C6 *)

\* C6 as stated: two statements of the same structure that differ only in
\* the values of their string, integer and float literals are rewritten to
\* the same statement.
C6_CanonicalShape == pc = "done" => stmt = stmtB

\* Wherever the two statements differ, both literals convert.
DifferencesConvert ==
    \A p \in LitPaths(stmt0) :
        NodeAt(stmt0, p) # NodeAt(stmtB0, p) =>
            Convertible(NodeAt(stmt0, p)) /\ Convertible(NodeAt(stmtB0, p))

\* The literals visited as scalars repeat in the same places: two of them
\* have the same dedup key in one statement exactly when they have in the
\* other.
SameRepeats ==
    \A p \in ConvScalars(stmt0) : \A q \in ConvScalars(stmt0) :
        (KeyOf(NodeAt(stmt0, p)) = KeyOf(NodeAt(stmt0, q)))
            <=> (KeyOf(NodeAt(stmtB0, p)) = KeyOf(NodeAt(stmtB0, q)))

\* C6 as the code has it: the two rewritten statements are the same when,
\* besides, every literal in which the statements differ converts in both
\* and the scalar literals repeat in the same places in both.
C6_SameRepeatsSameShape ==
    (pc = "done" /\ DifferencesConvert /\ SameRepeats) => stmt = stmtB

\* Two different statements with the same repeats, both rewritten.
C6_Witness ==
    /\ pc = "done"
    /\ stmt0 # stmtB0
    /\ DifferencesConvert /\ SameRepeats
    /\ \E p \in ConvScalars(stmt0) : \E q \in ConvScalars(stmt0) :
          p # q /\ KeyOf(NodeAt(stmt0, p)) = KeyOf(NodeAt(stmt0, q))
    /\ stmt # stmt0

====
